---- MODULE Spec2Model ----
(***************************************************************************)
(* Model of scripts/add_test_doc_comments.py: the tool that inserts        *)
(* generated doc comments above Rust unit tests.                           *)
(*                                                                         *)
(* Text is modelled as a sequence of lexical tokens (one-element strings   *)
(* such as "(" and ",", words such as "assert_eq" or "fn", " " and "\n"    *)
(* for white space).  Every string operation of the script (strip, split,  *)
(* find, the regular expressions, slicing) is computed on those sequences  *)
(* the way the script computes it on characters.  Positions kept in the    *)
(* state are the script's zero-based positions, counted in tokens.         *)
(***************************************************************************)
EXTENDS Integers, Sequences, FiniteSets, TLC

VARIABLES
    \* format_assert_text / split_top_level
    macro, expr, parts, text, fpc,
    \* extract_asserts
    body, idx, summaries, matched, apc,
    \* process_file
    file, run, lines, new_lines, tags, changed, wrote, file0

vars == <<macro, expr, parts, text, fpc,
          body, idx, summaries, matched, apc,
          file, run, lines, new_lines, tags, changed, wrote, file0>>

splitVars == <<macro, expr, parts, text, fpc>>
assertVars == <<body, idx, summaries, matched, apc>>
fileVars == <<file, run, lines, new_lines, tags, changed, wrote, file0>>

(***************************************************************************)
(* Bounds of the model.                                                    *)
(***************************************************************************)
MaxExprLen == 5
MaxPieces == 5
MaxLines == 4
MaxRuns == 2

\* the token standing for the back quote the script puts around operands
BT == "<bq>"

(***************************************************************************)
(* Python string primitives on token sequences.                            *)
(***************************************************************************)
\* str.isspace of a token: the white-space tokens of the model
Whitespace == {" ", "\n"}

\* s[p] with Python's zero-based position
At(s, p) == s[p + 1]

\* s[a:b] for 0 <= a, 0 <= b (Python clamps to len(s); empty when b <= a)
Slice(s, a, b) ==
    LET hi == IF b > Len(s) THEN Len(s) ELSE b
    IN  IF hi <= a THEN <<>> ELSE SubSeq(s, a + 1, hi)

RECURSIVE LStrip(_)
LStrip(s) == IF s # <<>> /\ Head(s) \in Whitespace THEN LStrip(Tail(s)) ELSE s

RECURSIVE RStrip(_)
RStrip(s) ==
    IF s # <<>> /\ s[Len(s)] \in Whitespace
    THEN RStrip(SubSeq(s, 1, Len(s) - 1))
    ELSE s

Strip(s) == RStrip(LStrip(s))

\* s.find(c, from): the first position >= from holding c, or -1
Find(s, c, from) ==
    LET hits == {p \in from .. Len(s) - 1 : At(s, p) = c}
    IN  IF hits = {} THEN -1 ELSE CHOOSE p \in hits : \A q \in hits : p <= q

\* s.startswith(prefix)
StartsWith(s, prefix) ==
    Len(s) >= Len(prefix) /\ SubSeq(s, 1, Len(prefix)) = prefix

\* sep.join(items)
RECURSIVE Join(_, _)
Join(items, sep) ==
    IF items = <<>> THEN <<>>
    ELSE IF Len(items) = 1 THEN items[1]
    ELSE items[1] \o sep \o Join(Tail(items), sep)

\* the n-th smallest element of a set of numbers
NthOf(S, n) == CHOOSE k \in S : Cardinality({j \in S : j < k}) = n - 1

\* the sequences over S of length at most n
SeqsUpTo(S, n) == UNION {[1 .. k -> S] : k \in 0 .. n}

(***************************************************************************)
(* clean_expr: " ".join(expr.replace("\n", " ").split())                   *)
(***************************************************************************)
RECURSIVE Collapse(_)
Collapse(s) ==
    IF s = <<>> THEN <<>>
    ELSE IF Head(s) \in Whitespace THEN <<" ">> \o Collapse(LStrip(s))
    ELSE <<Head(s)>> \o Collapse(Tail(s))

clean_expr(e) == Collapse(Strip(e))

(***************************************************************************)
(* split_top_level                                                         *)
(***************************************************************************)
OpenersParenOnly == {"("}
Openers == {"(", "[", "{"}
Closers == {")", "]", "}"}

RECURSIVE SplitLoop(_, _, _, _)
SplitLoop(rest, depth, current, acc) ==
    IF rest = <<>>
    THEN IF current # <<>> THEN Append(acc, Strip(current)) ELSE acc
    ELSE LET char == Head(rest)
             d == IF char \in Openers THEN depth + 1
                  ELSE IF char \in Closers THEN depth - 1
                  ELSE depth
         IN  IF char = "," /\ d = 0
             THEN SplitLoop(Tail(rest), d, <<>>, Append(acc, Strip(current)))
             ELSE SplitLoop(Tail(rest), d, Append(current, char), acc)

split_top_level(e) == SplitLoop(e, 0, <<>>, <<>>)

(***************************************************************************)
(* format_assert_text                                                      *)
(***************************************************************************)
\* the rendering rules, for the stripped macro, the cleaned expression and
\* its top-level parts
RenderAssert(mac, cleaned, ps) ==
    IF mac = <<"assert_eq">> /\ Len(ps) >= 2
    THEN <<"Confirms", " ", BT>> \o ps[1] \o <<BT, " ", "equals", " ", BT>>
             \o ps[2] \o <<BT>>
    ELSE IF mac = <<"assert_ne">> /\ Len(ps) >= 2
    THEN <<"Confirms", " ", BT>> \o ps[1]
             \o <<BT, " ", "differs", " ", "from", " ", BT>> \o ps[2] \o <<BT>>
    ELSE IF mac = <<"assert">>
    THEN <<"Ensures", " ", BT>> \o (IF ps # <<>> THEN ps[1] ELSE cleaned)
             \o <<BT, " ", "evaluates", " ", "to", " ", "true">>
    ELSE <<"Checks", " ", BT>> \o mac \o <<"!", "(">> \o cleaned \o <<")", BT>>

SplitCleaned(mac, cleaned) == RenderAssert(mac, cleaned, split_top_level(cleaned))

format_assert_text(m, e) == SplitCleaned(Strip(m), clean_expr(e))

(***************************************************************************)
(* extract_asserts.  The pattern assert[_a-zA-Z0-9]*!\s*\( on tokens: a     *)
(* match starts at a token that begins with the letters "assert", runs     *)
(* over every following identifier token, then needs "!", any white space  *)
(* and "(".                                                                *)
(***************************************************************************)
\* the tokens that begin with the letters assert
AssertPrefixed == {"assert", "assert_eq", "assert_ne"}

\* the tokens made only of the characters [_a-zA-Z0-9]
IdentTokens ==
    AssertPrefixed \cup
    {"x", "y", "a", "1", "2", "3", "expected", "fn", "test", "test_case", "cfg",
     "test_parse_ok", "test_fn_id", "parse", "ok", "id"}

\* the first position >= p whose token is outside S, len(s) when there is none
SkipWhile(s, p, S) ==
    LET stops == {q \in p .. Len(s) : q = Len(s) \/ At(s, q) \notin S}
    IN  CHOOSE q \in stops : \A r \in stops : q <= r

\* the position of the "(" that ends a match starting at k, or -1
MatchAssertAt(b, k) ==
    IF At(b, k) \notin AssertPrefixed THEN -1
    ELSE LET j == SkipWhile(b, k + 1, IdentTokens)
         IN  IF j >= Len(b) \/ At(b, j) # "!" THEN -1
             ELSE LET l == SkipWhile(b, j + 1, Whitespace)
                  IN  IF l >= Len(b) \/ At(b, l) # "(" THEN -1 ELSE l

\* re.search(pattern, body[idx:]): the start of the leftmost match, or -1
SearchAssert(b, i) ==
    LET hits == {k \in i .. Len(b) - 1 : MatchAssertAt(b, k) # -1}
    IN  IF hits = {} THEN -1 ELSE CHOOSE k \in hits : \A q \in hits : k <= q

\* the loop that looks for the closing parenthesis
RECURSIVE ParenScan(_, _, _)
ParenScan(b, pos, depth) ==
    IF pos < Len(b) /\ depth > 0
    THEN LET char == At(b, pos)
         IN  ParenScan(b, pos + 1,
                       IF char = "(" THEN depth + 1
                       ELSE IF char = ")" THEN depth - 1
                       ELSE depth)
    ELSE pos

\* a resumption that looks for the separator from the start of the body
NextIdxFromStart(b, pos) ==
    LET semicolon == Find(b, ";", 0)
    IN  IF semicolon = -1 THEN pos ELSE semicolon + 1

\* where the scan resumes
NextIdx(b, pos) ==
    LET semicolon == Find(b, ";", pos)
    IN  IF semicolon = -1 THEN pos ELSE semicolon + 1

\* what is left of a token when its last character is cut off: nothing of
\* a one-character token, the shorter word of the identifiers of the bodies
ChopLast(tok) ==
    IF tok = "assert" THEN <<"asser">>
    ELSE IF tok = "assert_eq" THEN <<"assert_e">>
    ELSE IF tok = "assert_ne" THEN <<"assert_n">>
    ELSE <<>>

\* body[paren_start + 1 : pos - 1]: the slice ends one CHARACTER before pos,
\* which is the whole closing parenthesis when the scan found it, and the
\* last character of the body's last token when it did not
ExprSlice(b, paren_start, pos) ==
    IF pos - 1 <= paren_start THEN <<>>
    ELSE Slice(b, paren_start + 1, pos - 1) \o ChopLast(At(b, pos - 1))

\* one iteration of the outer loop, for a cursor i at which a match exists:
\* the match, its opening parenthesis, the closing one, and the summary
AssertClosed(b, start, paren_start, pos) ==
    [summary |->
         [macro |-> Strip(SubSeq(b, start + 1, Find(b, "!", start))),
          text |-> format_assert_text(Strip(SubSeq(b, start + 1, Find(b, "!", start))),
                                      ExprSlice(b, paren_start, pos))],
     paren_start |-> paren_start,
     pos |-> pos,
     next |-> NextIdx(b, pos)]

AssertOpened(b, start, paren_start) ==
    AssertClosed(b, start, paren_start, ParenScan(b, paren_start + 1, 1))

AssertMatched(b, start) == AssertOpened(b, start, MatchAssertAt(b, start))

AssertIteration(b, i) == AssertMatched(b, SearchAssert(b, i))

RECURSIVE ExtractFrom(_, _, _)
ExtractNext(b, acc, it) == ExtractFrom(b, it.next, Append(acc, it.summary))

ExtractFrom(b, i, acc) ==
    IF i < Len(b) /\ SearchAssert(b, i) # -1
    THEN ExtractNext(b, acc, AssertIteration(b, i))
    ELSE acc

extract_asserts(b) == ExtractFrom(b, 0, <<>>)

(***************************************************************************)
(* The line classifiers.                                                   *)
(***************************************************************************)
\* the tokens that begin with the letters test / cfg, and those that end
\* with the letters fn
TestPrefixed == {"test", "test_case"}
CfgPrefixed == {"cfg", "cfg_attr"}
EndsWithFn == {"fn"}

\* TEST_ATTR_PATTERN.search(s): #\[(?:tokio::)?test
TestAttrPatternFound(s) ==
    \E k \in 1 .. Len(s) :
        /\ s[k] = "#["
        /\ \/ k + 1 <= Len(s) /\ s[k + 1] \in TestPrefixed
           \/ k + 2 <= Len(s) /\ s[k + 1] = "tokio::" /\ s[k + 2] \in TestPrefixed

is_test_attribute(line) ==
    LET stripped == Strip(line)
    IN  IF ~StartsWith(stripped, <<"#[">>) THEN FALSE
        ELSE IF Len(stripped) >= 2 /\ stripped[2] \in CfgPrefixed THEN FALSE
        ELSE TestAttrPatternFound(stripped)

is_attribute(line) ==
    LET stripped == Strip(line)
    IN  StartsWith(stripped, <<"#[">>) /\ ~StartsWith(stripped, <<"///">>)

\* a doc-comment test that forgets the leading white space
is_doc_comment_unstripped(line) == StartsWith(line, <<"///">>)

is_doc_comment(line) == StartsWith(LStrip(line), <<"///">>)

\* "fn " in line
ContainsFn(line) ==
    \E k \in 1 .. Len(line) - 1 : line[k] \in EndsWithFn /\ line[k + 1] = " "

(***************************************************************************)
(* find_function_body                                                      *)
(***************************************************************************)
\* the position of the brace that closes the one at brace_start, or -1
RECURSIVE CloseScan(_, _, _)
CloseScan(joined, offset, depth) ==
    IF offset >= Len(joined) THEN -1
    ELSE LET char == At(joined, offset)
         IN  IF char = "{" THEN CloseScan(joined, offset + 1, depth + 1)
             ELSE IF char = "}"
             THEN IF depth - 1 = 0 THEN offset
                  ELSE CloseScan(joined, offset + 1, depth - 1)
             ELSE CloseScan(joined, offset + 1, depth)

\* what is returned when the file ends before the brace is closed
UnterminatedBodyRest(joined, brace_start, n) ==
    [body |-> Slice(joined, brace_start + 1, Len(joined)), end_index |-> n]

UnterminatedBody(joined, brace_start, n) == [body |-> <<>>, end_index |-> n]

\* the end of the depth count, for the position of the closing brace
BodyClosed(joined, brace_start, close_pos, ls, fn_index) ==
    IF close_pos = -1 THEN UnterminatedBody(joined, brace_start, Len(ls))
    ELSE [body |-> Slice(joined, brace_start + 1, close_pos),
          end_index |-> fn_index
              + Cardinality({p \in 0 .. close_pos : At(joined, p) = "\n"})]

\* the depth count, for the position of the first opening brace
BodyFrom(joined, brace_start, ls, fn_index) ==
    IF brace_start = -1 THEN [body |-> <<>>, end_index |-> fn_index]
    ELSE BodyClosed(joined, brace_start, CloseScan(joined, brace_start, 0),
                    ls, fn_index)

JoinedFromFn(joined_from_fn, ls, fn_index) ==
    BodyFrom(joined_from_fn, Find(joined_from_fn, "{", 0), ls, fn_index)

find_function_body(ls, fn_index) ==
    JoinedFromFn(Join(Slice(ls, fn_index, Len(ls)), <<"\n">>), ls, fn_index)

(***************************************************************************)
(* extract_function_name, humanize_name, find_primary_target               *)
(***************************************************************************)
\* \bfn\s+([a-zA-Z0-9_]+): the identifier token after the leftmost "fn" that
\* starts a word and is followed by white space; <<>> stands for None
extract_function_name(line) ==
    LET hits == {k \in 1 .. Len(line) :
                    /\ line[k] = "fn"
                    /\ (k = 1 \/ line[k - 1] \notin IdentTokens)
                    /\ k + 1 <= Len(line) /\ line[k + 1] \in Whitespace
                    /\ LET q == SkipWhile(line, k, Whitespace)
                       IN  q < Len(line) /\ At(line, q) \in IdentTokens}
    IN  IF hits = {} THEN <<>>
        ELSE LET k == CHOOSE h \in hits : \A g \in hits : h <= g
             IN  <<At(line, SkipWhile(line, k, Whitespace))>>

\* name.split("_") without the empty segments, for the names of the model
UnderscoreSegments(name) ==
    CASE name = "test_parse_ok" -> <<"test", "parse", "ok">>
      [] name = "test_fn_id" -> <<"test", "fn", "id">>
      [] OTHER -> <<name>>

ACRONYM_MAP ==
    [k \in {"api", "cpu", "db", "http", "https", "id", "io", "jwt", "sql", "ssl",
            "tls", "ui", "url", "uuid", "rbac", "ipc", "ip"} |->
        CASE k = "api" -> "API" [] k = "cpu" -> "CPU" [] k = "db" -> "DB"
          [] k = "http" -> "HTTP" [] k = "https" -> "HTTPS" [] k = "id" -> "ID"
          [] k = "io" -> "IO" [] k = "jwt" -> "JWT" [] k = "sql" -> "SQL"
          [] k = "ssl" -> "SSL" [] k = "tls" -> "TLS" [] k = "ui" -> "UI"
          [] k = "url" -> "URL" [] k = "uuid" -> "UUID" [] k = "rbac" -> "RBAC"
          [] k = "ipc" -> "IPC" [] k = "ip" -> "IP"]

\* str.capitalize and str.lower on the words of the model
Capitalize(w) ==
    CASE w = "parse" -> "Parse" [] w = "ok" -> "Ok" [] w = "fn" -> "Fn"
      [] w = "id" -> "Id" [] w = "test" -> "Test" [] w = "x" -> "X"
      [] OTHER -> w

Lower(w) ==
    CASE w = "Parse" -> "parse" [] w = "Ok" -> "ok" [] w = "Fn" -> "fn"
      [] w = "ID" -> "id" [] w = "Id" -> "id" [] w = "Test" -> "test" [] w = "X" -> "x"
      [] OTHER -> w

\* the words of the display name (they are joined by single spaces)
humanize_name(name) ==
    LET all == UnderscoreSegments(name)
        tokens == IF all # <<>> /\ all[1] = "test" THEN Tail(all) ELSE all
    IN  IF tokens = <<>> THEN <<"test">>
        ELSE [n \in 1 .. Len(tokens) |->
                 IF Lower(tokens[n]) \in DOMAIN ACRONYM_MAP
                 THEN ACRONYM_MAP[Lower(tokens[n])]
                 ELSE IF n = 1 THEN Capitalize(tokens[n])
                 ELSE Lower(tokens[n])]

\* the qualified paths of the model, with the generic segment removed
PathTokens == {"Parser::parse", "Vec::<u8>::new"}
StripGeneric(t) == IF t = "Vec::<u8>::new" THEN "Vec::new" ELSE t

\* <<>> stands for None
find_primary_target(b) ==
    LET hits == {k \in 1 .. Len(b) : b[k] \in PathTokens}
    IN  IF hits = {} THEN <<>>
        ELSE <<StripGeneric(b[CHOOSE k \in hits : \A q \in hits : k <= q])>>

(***************************************************************************)
(* build_doc_comment                                                       *)
(***************************************************************************)
\* the words of a phrase joined by single spaces
Spaced(words) == Join([n \in 1 .. Len(words) |-> <<words[n]>>], <<" ">>)

\* the opening sentence
Preface(display_name, target) ==
    IF target # <<>>
    THEN <<"Validates", " ", BT>> \o target \o <<BT, " ", "behavior">>
             \o (IF display_name # <<>>
                 THEN <<" ", "for", " ", "the", " ">>
                          \o Spaced([n \in 1 .. Len(display_name) |->
                                        Lower(display_name[n])])
                          \o <<" ", "scenario">>
                 ELSE <<>>)
             \o <<".">>
    ELSE <<"Validates", " ", "the", " ">>
             \o Spaced([n \in 1 .. Len(display_name) |-> Lower(display_name[n])])
             \o <<" ", "scenario", ".">>

\* the lines of the block, for the opening sentence and the summaries
DocLines(indent, preface, asserts) ==
    IF asserts # <<>>
    THEN <<indent \o <<"///", " ">> \o preface,
           indent \o <<"///">>,
           indent \o <<"///", " ", "Assertions:">>>>
             \o [n \in 1 .. Len(asserts) |->
                    indent \o <<"///", " ", "-", " ">> \o asserts[n].text \o <<".">>]
    ELSE <<indent \o <<"///", " ">> \o preface,
           indent \o <<"///">>,
           indent \o <<"///", " ", "Assertion", " ", "coverage:", " ",
                       "ensures", " ", "the", " ", "routine", " ",
                       "completes", " ", "without", " ", "panicking.">>>>

build_doc_comment(indent, name, b) ==
    DocLines(indent, Preface(humanize_name(name), find_primary_target(b)),
             extract_asserts(b))

(***************************************************************************)
(* process_file.  Beside new_lines the loop carries tags, a history        *)
(* sequence of the same length: for a copied line its index in lines       *)
(* (orig), for a generated line the index of the marker line it was        *)
(* generated for (owner), its rank k among the n lines of its comment      *)
(* block, the value of insert_at before the clamp (at) and the index of    *)
(* the original line that insert_at designated when the block was          *)
(* inserted (dest).                                                        *)
(***************************************************************************)
\* str.splitlines() of a content whose only line break is "\n": a line ends
\* at every line break, and at the end of the content when the content does
\* not end with a line break
LineEnds(content) ==
    {p \in 1 .. Len(content) : content[p] = "\n"}
        \cup (IF content # <<>> /\ content[Len(content)] # "\n"
              THEN {Len(content) + 1} ELSE {})

LineBetween(content, ends, k) ==
    SubSeq(content, IF k = 1 THEN 1 ELSE NthOf(ends, k - 1) + 1, NthOf(ends, k) - 1)

LinesOf(content, ends) ==
    [k \in 1 .. Cardinality(ends) |-> LineBetween(content, ends, k)]

splitlines(content) == LinesOf(content, LineEnds(content))

\* original.endswith("\n")
EndsWithNewline(content) == content # <<>> /\ content[Len(content)] = "\n"

RECURSIVE BlockStart(_, _)
BlockStart(ls, block_start) ==
    IF block_start > 0 /\ is_attribute(At(ls, block_start - 1))
    THEN BlockStart(ls, block_start - 1)
    ELSE block_start

RECURSIVE DocIdx(_, _)
DocIdx(ls, doc_idx) ==
    IF doc_idx >= 0 /\ Strip(At(ls, doc_idx)) = <<>>
    THEN DocIdx(ls, doc_idx - 1)
    ELSE doc_idx

\* a presence test that looks only at the line directly above the block
doc_exists_adjacent(ls, block_start) ==
    block_start - 1 >= 0 /\ is_doc_comment(At(ls, block_start - 1))

doc_exists(ls, block_start) ==
    LET doc_idx == DocIdx(ls, block_start - 1)
    IN  doc_idx >= 0 /\ is_doc_comment(At(ls, doc_idx))

RECURSIVE AttrEnd(_, _)
AttrEnd(ls, attr_end) ==
    IF attr_end + 1 < Len(ls) /\ is_attribute(At(ls, attr_end + 1))
    THEN AttrEnd(ls, attr_end + 1)
    ELSE attr_end

RECURSIVE FnIdxWalk(_, _)
FnIdxWalk(ls, fn_idx) ==
    IF fn_idx < Len(ls) /\ ~ContainsFn(At(ls, fn_idx))
    THEN FnIdxWalk(ls, fn_idx + 1)
    ELSE fn_idx

\* a signature search that starts at the top of the file
FnIdxFromTop(ls, attr_end) == FnIdxWalk(ls, 0)

FnIdx(ls, attr_end) == FnIdxWalk(ls, attr_end + 1)

\* re.match(r"\s*", line).group(0)
LeadingWhitespace(line) == SubSeq(line, 1, Len(line) - Len(LStrip(line)))

\* an insertion point that forgets the part of the block already copied
InsertAtEnd(n, i, block_start) == n

\* insert_at = len(new_lines) - (i - block_start), clamped at 0
InsertAt(n, i, block_start) ==
    LET insert_at == n - (i - block_start)
    IN  IF insert_at < 0 THEN 0 ELSE insert_at

\* a splice that overwrites the line at the insertion point
SpliceOver(seq, at, ins) == Slice(seq, 0, at) \o ins \o Slice(seq, at + 1, Len(seq))

\* seq[at:at] = ins
Splice(seq, at, ins) == Slice(seq, 0, at) \o ins \o Slice(seq, at, Len(seq))

OrigTag(i) == [orig |-> i, owner |-> -1, k |-> 0, n |-> 0, at |-> 0, dest |-> -1]

\* new_lines[insert_at:insert_at] = comment_lines, for the marker line i
SpliceComment(st, i, block_start, insert_at, comment_lines) ==
    [new_lines |-> Splice(st.new_lines, insert_at, comment_lines),
     tags |-> Splice(st.tags, insert_at,
                     [k \in 1 .. Len(comment_lines) |->
                         [orig |-> -1, owner |-> i, k |-> k, n |-> Len(comment_lines),
                          at |-> Len(st.new_lines) - (i - block_start),
                          dest |-> IF insert_at < Len(st.tags)
                                   THEN At(st.tags, insert_at).orig
                                   ELSE i]]),
     changed |-> TRUE]

\* the name found on the signature line, "test" when there is none
FnName(got) == IF got # <<>> THEN got[1] ELSE "test"

\* the insertion of the comment block of the marker line i, whose function
\* signature is at fn_idx and whose function body is b
InsertComment(ls, i, block_start, fn_idx, b, st) ==
    SpliceComment(st, i, block_start,
                  InsertAt(Len(st.new_lines), i, block_start),
                  build_doc_comment(LeadingWhitespace(At(ls, block_start)),
                                    FnName(extract_function_name(At(ls, fn_idx))),
                                    b))

\* the body of "if is_test_attribute(line)", for the marker line i.  (A set
\* of one element, here and below, is how a value is computed once and then
\* named.)
MarkerStep(ls, i, st) ==
    LET block_start == BlockStart(ls, i)
    IN  IF doc_exists(ls, block_start) THEN st
        ELSE LET attr_end == AttrEnd(ls, i)
                 fn_idx == FnIdx(ls, attr_end)
             IN  IF ~(fn_idx < Len(ls)) THEN st
                 ELSE CHOOSE r \in
                          {InsertComment(ls, i, block_start, fn_idx, b, st) :
                               b \in {find_function_body(ls, fn_idx).body}} : TRUE

\* new_lines.append(line)
AppendLine(r, ls, i) ==
    [new_lines |-> Append(r.new_lines, At(ls, i)),
     tags |-> Append(r.tags, OrigTag(i)),
     changed |-> r.changed]

\* one iteration of the loop: the marker step, then the copy of the line
LineStep(ls, i, st) ==
    AppendLine(IF is_test_attribute(At(ls, i)) THEN MarkerStep(ls, i, st) ELSE st,
               ls, i)

\* the loop "while i < len(lines)"
RECURSIVE ProcessLoop(_, _, _)
ProcessLoop(ls, i, st) ==
    IF ~(i < Len(ls)) THEN st
    ELSE CHOOSE r \in {ProcessLoop(ls, i + 1, nx) : nx \in {LineStep(ls, i, st)}} : TRUE

\* the content written back
Written(original, out) ==
    Join(out, <<"\n">>) \o (IF EndsWithNewline(original) THEN <<"\n">> ELSE <<>>)

(***************************************************************************)
(* Specification of format_assert_text: the inputs are every expression    *)
(* over ExprAlphabet of at most MaxExprLen tokens, and the expression of   *)
(* the nested-comma example, under each macro keyword.                     *)
(***************************************************************************)
ExprAlphabet == {"a", ",", "(", ")", "[", "]", " "}

\* vec![1, 2, 3], expected
VecExample ==
    <<"vec!", "[", "1", ",", " ", "2", ",", " ", "3", "]", ",", " ", "expected">>

ExprInputs == SeqsUpTo(ExprAlphabet, MaxExprLen) \cup {VecExample}

MacroInputs == {<<"assert_eq">>, <<"assert_ne">>, <<"assert">>, <<"assert_matches">>}

IdleSplit == macro = <<>> /\ expr = <<>> /\ parts = <<>> /\ text = <<>> /\ fpc = "idle"
IdleAsserts == body = <<>> /\ idx = 0 /\ summaries = <<>> /\ matched = <<>> /\ apc = "idle"
IdleFile ==
    /\ file = <<>> /\ run = 0 /\ lines = <<>> /\ new_lines = <<>> /\ tags = <<>>
    /\ changed = FALSE /\ wrote = FALSE /\ file0 = <<>>

InitSplit ==
    /\ macro \in MacroInputs
    /\ expr \in ExprInputs
    /\ parts = <<>>
    /\ text = <<>>
    /\ fpc = "start"
    /\ IdleAsserts
    /\ IdleFile

\* one call of format_assert_text(macro, expr)
FormatAssert ==
    /\ fpc = "start"
    /\ parts' = split_top_level(clean_expr(expr))
    /\ text' = format_assert_text(macro, expr)
    /\ fpc' = "done"
    /\ UNCHANGED <<macro, expr, assertVars, fileVars>>

NextSplit == FormatAssert

SpecSplit == InitSplit /\ [][NextSplit]_vars

(***************************************************************************)
(* Specification of extract_asserts, one action per iteration of its outer *)
(* loop.  The bodies are the concatenations of at most MaxPieces pieces.   *)
(* matched is a history variable: the position of the opening parenthesis  *)
(* of every invocation summarised so far.                                  *)
(***************************************************************************)
BodyPieces ==
    { <<"assert", "!", "(">>, <<"assert_eq", "!", " ", "(">>, <<"assert">>,
      <<"x">>, <<",">>, <<"(">>, <<")">>, <<";">> }

RECURSIVE Flatten(_)
Flatten(ps) == IF ps = <<>> THEN <<>> ELSE Head(ps) \o Flatten(Tail(ps))

BodyInputs == {Flatten(ps) : ps \in SeqsUpTo(BodyPieces, MaxPieces)}

InitAsserts ==
    /\ body \in BodyInputs
    /\ idx = 0
    /\ summaries = <<>>
    /\ matched = <<>>
    /\ apc = "scan"
    /\ IdleSplit
    /\ IdleFile

\* an iteration of "while idx < len(body)" that finds a match
ExtractIteration ==
    /\ apc = "scan"
    /\ idx < Len(body)
    /\ SearchAssert(body, idx) # -1
    /\ LET it == AssertIteration(body, idx)
       IN  /\ summaries' = Append(summaries, it.summary)
           /\ matched' = Append(matched, it.paren_start)
           /\ idx' = it.next
    /\ UNCHANGED <<body, apc, splitVars, fileVars>>

\* the loop ends: the cursor is at the end, or no match is left (break)
ExtractReturn ==
    /\ apc = "scan"
    /\ \/ idx >= Len(body)
       \/ SearchAssert(body, idx) = -1
    /\ apc' = "done"
    /\ UNCHANGED <<body, idx, summaries, matched, splitVars, fileVars>>

NextAsserts == ExtractIteration \/ ExtractReturn

SpecAsserts == InitAsserts /\ [][NextAsserts]_vars

(***************************************************************************)
(* Specification of process_file: the file holds at most MaxLines lines    *)
(* drawn from FileLines, with or without a final line break, and the tool  *)
(* is run on it at most MaxRuns times, each run one call of process_file.  *)
(* file0 is a history variable: the content before the first run.          *)
(***************************************************************************)
FileLines ==
    { <<"#[", "test", "]">>,
      <<" ", "#[", "tokio::", "test", "]">>,
      <<"#[", "test_case", "(", "x", ")", "]">>,
      <<"#[", "ignore", "]">>,
      <<"///", " ", "x">>,
      <<>>,
      <<"fn", " ", "test_parse_ok", "(", ")", " ", "{", " ",
        "assert_eq", "!", "(", "Parser::parse", "(", "x", ")", ",", " ", "y", ")", ";",
        " ", "}">>,
      <<"fn", " ", "test_fn_id", "(", ")", " ", "{">>,
      <<"}">> }

FileInputs ==
    {Join(ls, <<"\n">>) \o nl : ls \in SeqsUpTo(FileLines, MaxLines),
                                nl \in {<<>>, <<"\n">>}}

InitFile ==
    /\ file \in FileInputs
    /\ file0 = file
    /\ run = 0
    /\ lines = <<>>
    /\ new_lines = <<>>
    /\ tags = <<>>
    /\ changed = FALSE
    /\ wrote = FALSE
    /\ IdleSplit
    /\ IdleAsserts

\* one call of process_file(path)
ProcessFile ==
    /\ run < MaxRuns
    /\ \E original \in {file} :
       \E ls \in {splitlines(original)} :
       \E r \in {ProcessLoop(ls, 0, [new_lines |-> <<>>, tags |-> <<>>, changed |-> FALSE])} :
           /\ lines' = ls
           /\ new_lines' = r.new_lines
           /\ tags' = r.tags
           /\ changed' = r.changed
           /\ wrote' = r.changed
           /\ file' = IF r.changed THEN Written(original, r.new_lines) ELSE file
    /\ run' = run + 1
    /\ UNCHANGED <<file0, splitVars, assertVars>>

NextFile == ProcessFile

SpecFile == InitFile /\ [][NextFile]_vars

(***************************************************************************)
(* C7.  The reference for the top-level split, stated without the loop:    *)
(* the nesting depth of a position is the number of opening delimiters     *)
(* minus the number of closing delimiters up to it, the split points are   *)
(* the commas of depth zero, and the operands are the stripped segments    *)
(* between consecutive split points (a last segment that is empty is not   *)
(* an operand).                                                            *)
(***************************************************************************)
NestingAt(c, k) ==
    Cardinality({j \in 1 .. k : c[j] \in {"(", "[", "{"}})
        - Cardinality({j \in 1 .. k : c[j] \in {")", "]", "}"}})

TopLevelCommas(c) == {k \in 1 .. Len(c) : c[k] = "," /\ NestingAt(c, k) = 0}

TopLevelSegment(c, n) ==
    LET cuts == TopLevelCommas(c)
        lo == IF n = 1 THEN 1 ELSE NthOf(cuts, n - 1) + 1
        hi == IF n <= Cardinality(cuts) THEN NthOf(cuts, n) - 1 ELSE Len(c)
    IN  IF hi < lo THEN <<>> ELSE SubSeq(c, lo, hi)

TopLevelCount(c) ==
    LET n == Cardinality(TopLevelCommas(c))
    IN  IF TopLevelSegment(c, n + 1) = <<>> THEN n ELSE n + 1

\* C7: format_assert_text splits the cleaned argument text exactly at the
\* commas of nesting depth zero with respect to ( [ {, the operands being the
\* stripped segments in order; 'vec![1, 2, 3], expected' gives exactly the two
\* operands 'vec![1, 2, 3]' and 'expected'; and assert_eq with at least two
\* operands renders operand 0 and operand 1 of that split.
C7_TopLevelSplit ==
    fpc = "done" =>
        LET c == clean_expr(expr)
        IN  /\ Len(parts) = TopLevelCount(c)
            /\ \A n \in 1 .. Len(parts) : parts[n] = Strip(TopLevelSegment(c, n))
            /\ expr = VecExample =>
                  parts = << <<"vec!", "[", "1", ",", " ", "2", ",", " ", "3", "]">>,
                             <<"expected">> >>
            /\ (macro = <<"assert_eq">> /\ Len(parts) >= 2) =>
                  text = <<"Confirms", " ", BT>> \o parts[1]
                             \o <<BT, " ", "equals", " ", BT>> \o parts[2] \o <<BT>>

\* the nested-comma example has been split and rendered as an equality
C7_Witness ==
    /\ fpc = "done"
    /\ expr = VecExample
    /\ macro = <<"assert_eq">>
    /\ Len(parts) = 2
    /\ TopLevelCommas(clean_expr(expr)) # {k \in 1 .. Len(expr) : expr[k] = ","}

(***************************************************************************)
(* C6 and C10: the assertion scan.                                         *)
(***************************************************************************)
\* the positions at which an assertion invocation (assert...!( ) starts
AssertOccurrences(b) == {k \in 0 .. Len(b) - 1 : MatchAssertAt(b, k) # -1}

\* the invocations of a body from position i on, none overlapping another:
\* the leftmost one, then those after its closing parenthesis
RECURSIVE InvocationsFrom(_, _)
InvocationsFrom(b, i) ==
    IF i >= Len(b) \/ SearchAssert(b, i) = -1 THEN <<>>
    ELSE LET paren_start == MatchAssertAt(b, SearchAssert(b, i))
         IN  <<paren_start>> \o InvocationsFrom(b, ParenScan(b, paren_start + 1, 1))

\* C6: extract_asserts returns exactly one summary per assertion invocation
\* of the body, in textual order, none twice and none omitted, also when an
\* invocation is not directly followed by ';'.
C6_OneSummaryPerInvocation ==
    apc = "done" =>
        /\ matched = InvocationsFrom(body, 0)
        /\ Len(summaries) = Len(matched)

\* C10: every iteration of the outer loop moves idx strictly forward, past
\* the opening parenthesis it matched and not past the end of the body, so
\* the scan ends after at most len(body) iterations; and there are never more
\* summaries than occurrences of assert...!( in the body.
C10_ForwardProgress ==
    [][(idx' # idx \/ summaries' # summaries) =>
          /\ idx' > idx
          /\ idx' > matched'[Len(matched')]
          /\ idx' <= Len(body)
          /\ Len(summaries') = Len(summaries) + 1
          /\ Len(summaries') <= Cardinality(AssertOccurrences(body))]_vars

\* a scan that has ended after two iterations on a body that holds no ';'
\* and whose parentheses are unbalanced
C10_Witness ==
    /\ apc = "done"
    /\ Len(summaries) = 2
    /\ Find(body, ";", 0) = -1
    /\ Cardinality({k \in 1 .. Len(body) : body[k] = "("})
          > Cardinality({k \in 1 .. Len(body) : body[k] = ")"})

(***************************************************************************)
(* The claims about process_file.  They are stated on the lines read by    *)
(* the last run (lines), its output (new_lines) and the history of that    *)
(* output (tags), with the notions of the claims defined from the text of  *)
(* the lines alone.                                                        *)
(***************************************************************************)
\* the indices of the test-marker lines
Markers(ls) == {i \in 0 .. Len(ls) - 1 : is_test_attribute(At(ls, i))}

\* the first line of the marker block of line i: the start of the contiguous
\* run of attribute lines that ends at i
BlockFirst(ls, i) ==
    CHOOSE b \in 0 .. i :
        /\ \A j \in b .. i : is_attribute(At(ls, j))
        /\ b = 0 \/ ~is_attribute(At(ls, b - 1))

\* the last line of the contiguous run of attribute lines that holds line i
RunLast(ls, i) ==
    CHOOSE e \in i .. Len(ls) - 1 :
        /\ \A j \in i .. e : is_attribute(At(ls, j))
        /\ e = Len(ls) - 1 \/ ~is_attribute(At(ls, e + 1))

\* the lines after the attribute run of marker i that hold the token "fn "
SignaturesAfter(ls, i) ==
    {f \in RunLast(ls, i) + 1 .. Len(ls) - 1 :
        \E k \in 1 .. Len(At(ls, f)) - 1 :
            At(ls, f)[k] = "fn" /\ At(ls, f)[k + 1] = " "}

\* the function signature of marker i (when SignaturesAfter is not empty)
SignatureOf(ls, i) ==
    CHOOSE f \in SignaturesAfter(ls, i) : \A g \in SignaturesAfter(ls, i) : f <= g

\* a line that starts with "///" (after its indentation) ends the blank
\* lines above line b
PrecededByDoc(ls, b) ==
    \E d \in 0 .. b - 1 :
        /\ LStrip(At(ls, d)) # <<>> /\ Head(LStrip(At(ls, d))) = "///"
        /\ \A j \in d + 1 .. b - 1 : Strip(At(ls, j)) = <<>>

\* the text from the signature line f on has an opening brace whose closing
\* brace never comes
Unbalanced(ls, f) ==
    LET joined == Join(Slice(ls, f, Len(ls)), <<"\n">>)
        opens == {p \in 1 .. Len(joined) : joined[p] = "{"}
    IN  /\ opens # {}
        /\ LET first == CHOOSE p \in opens : \A q \in opens : p <= q
           IN  \A q \in first .. Len(joined) :
                   Cardinality({r \in first .. q : joined[r] = "{"})
                       # Cardinality({r \in first .. q : joined[r] = "}"})

\* the output positions of the generated lines, and the markers they are for
Generated == {q \in 1 .. Len(tags) : tags[q].orig = -1}
Owners == {tags[q].owner : q \in Generated}

\* the comment block generated for marker i, and the output position of the
\* original line j
BlockOf(i) ==
    LET qs == {q \in Generated : tags[q].owner = i}
    IN  [n \in 1 .. Cardinality(qs) |-> new_lines[NthOf(qs, n)]]
PositionOf(j) == CHOOSE q \in 1 .. Len(tags) : tags[q].orig = j

\* C1: once the tool has run, a further run performs no insertion, returns
\* changed = False, writes nothing and leaves the content as it is.
C1_Idempotent ==
    [][run >= 1 =>
          /\ changed' = FALSE
          /\ wrote' = FALSE
          /\ file' = file
          /\ new_lines' = lines'
          /\ \A q \in 1 .. Len(tags') : tags'[q].orig # -1]_vars

\* a second run has been made on a content that the first run rewrote
C1_Witness == run = 2 /\ file # file0 /\ Len(new_lines) > 0

\* C2: the output without the generated lines is the original line sequence:
\* every original line once, unchanged and in order; and the content written
\* reads back as the output lines.
C2_NonDestructive ==
    run >= 1 =>
        LET kept == {q \in 1 .. Len(tags) : tags[q].orig # -1}
        IN  /\ Len(tags) = Len(new_lines)
            /\ Cardinality(kept) = Len(lines)
            /\ \A n \in 1 .. Len(lines) :
                   /\ tags[NthOf(kept, n)].orig = n - 1
                   /\ new_lines[NthOf(kept, n)] = lines[n]
            /\ changed => splitlines(file) = new_lines

\* a run has inserted a comment block below the first line of the file
C2_Witness ==
    /\ run = 1
    /\ changed
    /\ \E q \in Generated : q > 1 /\ tags[1].orig = 0

\* C3: nothing is inserted for a marker whose block is preceded, blank lines
\* skipped, by a line starting with '///'; a marker whose block has only
\* blank lines (or nothing) above it and a signature below gets a block.
C3_DocCommentSkip ==
    run >= 1 =>
        \A i \in Markers(lines) :
            /\ PrecededByDoc(lines, BlockFirst(lines, i)) => i \notin Owners
            /\ ( /\ \A j \in 0 .. BlockFirst(lines, i) - 1 : Strip(At(lines, j)) = <<>>
                 /\ SignaturesAfter(lines, i) # {} ) => i \in Owners

\* a run has skipped a test that has a signature and whose doc comment is
\* separated from the marker block by a blank line
C3_Witness ==
    /\ run = 1
    /\ \E i \in Markers(lines) :
           /\ SignaturesAfter(lines, i) # {}
           /\ BlockFirst(lines, i) >= 2
           /\ Strip(At(lines, BlockFirst(lines, i) - 1)) = <<>>
           /\ PrecededByDoc(lines, BlockFirst(lines, i))
           /\ i \notin Owners

C5_MissingSignatureSkipped ==
    run >= 1 =>
        /\ changed <=> Generated # {}
        /\ \A i \in Markers(lines) :
               SignaturesAfter(lines, i) = {} =>
                   /\ i \notin Owners
                   /\ \E r \in {ProcessLoop([lines EXCEPT ![i + 1] = <<"x">>], 0,
                                           [new_lines |-> <<>>, tags |-> <<>>,
                                            changed |-> FALSE])} :
                          /\ r.tags = tags
                          /\ r.changed = changed
                          /\ \A q \in 1 .. Len(tags) :
                                 tags[q].orig # i => r.new_lines[q] = new_lines[q]

\* a run has commented one test and skipped a marker that has no signature
C5_Witness ==
    /\ run = 1
    /\ changed
    /\ \E i \in Markers(lines) : SignaturesAfter(lines, i) = {} /\ i \notin Owners

C9_OneBlockPerTest ==
    run = 1 =>
        \A i, j \in Owners :
            BlockFirst(lines, i) = BlockFirst(lines, j) => i = j

====
